---- MODULE Spec2Model ----
(***************************************************************************)
(* Model of calendar_shift.py: the offset resolution, the event selection  *)
(* and the event shifting of main(), with the calendar and the sleep       *)
(* provider as external collaborators whose answers are nondeterministic.  *)
(*                                                                         *)
(* Serialized timestamps.  An ISO-8601 dateTime string is the record       *)
(*   [secs, fd, micro, zone, off]                                          *)
(* secs  : the fixed-width, zero-padded 'YYYY-MM-DDTHH:MM:SS' prefix, as   *)
(*         the number of wall-clock seconds since 00:00:00 of day 0 (the   *)
(*         mapping between the text and the number is a bijection);        *)
(* fd    : the number of fraction digits written (0: no '.fff' part);      *)
(* micro : the fraction, in microseconds;                                  *)
(* zone  : "Z" (trailing Z), "num" (explicit +HH:MM / -HH:MM, off minutes) *)
(*         or "naive" (no zone suffix).                                    *)
(* Two strings are byte-identical iff their records are equal.             *)
(***************************************************************************)
EXTENDS Integers, Sequences, FiniteSets, TLC

VARIABLES run, twin, sh, call

vars == <<run, twin, sh, call>>

MaxEvents == 2

\* ------------------------------------------------------------ time helpers
T(d, h, m, s) == d * 86400 + h * 3600 + m * 60 + s

Ser(secs, fd, micro, zone, off) ==
    [secs |-> secs, fd |-> fd, micro |-> micro, zone |-> zone, off |-> off]

NoneDT == [tag |-> "None"]

\* datetime.fromisoformat(s.replace('Z', '+00:00'))
fromisoformat(s) ==
    [tag |-> "dt", secs |-> s.secs, micro |-> s.micro,
     aware |-> (s.zone # "naive"),
     off |-> IF s.zone = "num" THEN s.off ELSE 0]

\* dt + timedelta(minutes=offset_minutes): wall-clock arithmetic, tzinfo kept
plus_minutes(dt, offset_minutes) ==
    [dt EXCEPT !.secs = dt.secs + 60 * offset_minutes]

\* dt.strftime('%Y-%m-%dT%H:%M:%S') + 'Z': the wall-clock fields of dt,
\* no fraction, no conversion to UTC
strftime_Z(dt) == Ser(dt.secs, 0, 0, "Z", 0)

\* dt.isoformat(): six fraction digits iff microsecond # 0, '+HH:MM' iff aware
isoformat(dt) ==
    Ser(dt.secs, IF dt.micro = 0 THEN 0 ELSE 6, dt.micro,
        IF dt.aware THEN "num" ELSE "naive", IF dt.aware THEN dt.off ELSE 0)

\* dt.replace(tzinfo=None) if dt.tzinfo else dt
strip_tz(dt) == [dt EXCEPT !.aware = FALSE, !.off = 0]

\* ------------------------------------------------------------ titles
\* A title is the sequence of the code points of its characters
\* ('A' 65 .. 'Z' 90, 'a' 97 .. 'z' 122, ' ' 32).
SLEEP_EVENT_NAMES ==
    { <<115, 108, 101, 101, 112>>,              \* 'sleep'
      <<119, 97, 107, 101>>,                    \* 'wake'
      <<119, 97, 107, 101, 117, 112>>,          \* 'wakeup'
      <<119, 97, 107, 101, 32, 117, 112>>,      \* 'wake up'
      <<98, 101, 100, 116, 105, 109, 101>> }    \* 'bedtime'

\* str.lower() follows the case mappings of the Unicode database (14.0).
\* LowerRuns lists them as <<first, last, step, delta>>: every code point
\* first, first + step, ..., last has the lowercase code point + delta.
LowerRuns ==
    { <<65, 90, 1, 32>>, <<192, 214, 1, 32>>, <<216, 222, 1, 32>>, <<256, 302, 2, 1>>,
      <<306, 310, 2, 1>>, <<313, 327, 2, 1>>, <<330, 374, 2, 1>>, <<376, 376, 1, -121>>,
      <<377, 381, 2, 1>>, <<385, 385, 1, 210>>, <<386, 388, 2, 1>>, <<390, 390, 1, 206>>,
      <<391, 391, 1, 1>>, <<393, 394, 1, 205>>, <<395, 395, 1, 1>>, <<398, 398, 1, 79>>,
      <<399, 399, 1, 202>>, <<400, 400, 1, 203>>, <<401, 401, 1, 1>>, <<403, 403, 1, 205>>,
      <<404, 404, 1, 207>>, <<406, 406, 1, 211>>, <<407, 407, 1, 209>>, <<408, 408, 1, 1>>,
      <<412, 412, 1, 211>>, <<413, 413, 1, 213>>, <<415, 415, 1, 214>>, <<416, 420, 2, 1>>,
      <<422, 422, 1, 218>>, <<423, 423, 1, 1>>, <<425, 425, 1, 218>>, <<428, 428, 1, 1>>,
      <<430, 430, 1, 218>>, <<431, 431, 1, 1>>, <<433, 434, 1, 217>>, <<435, 437, 2, 1>>,
      <<439, 439, 1, 219>>, <<440, 440, 1, 1>>, <<444, 444, 1, 1>>, <<452, 452, 1, 2>>,
      <<453, 453, 1, 1>>, <<455, 455, 1, 2>>, <<456, 456, 1, 1>>, <<458, 458, 1, 2>>,
      <<459, 475, 2, 1>>, <<478, 494, 2, 1>>, <<497, 497, 1, 2>>, <<498, 500, 2, 1>>,
      <<502, 502, 1, -97>>, <<503, 503, 1, -56>>, <<504, 542, 2, 1>>, <<544, 544, 1, -130>>,
      <<546, 562, 2, 1>>, <<570, 570, 1, 10795>>, <<571, 571, 1, 1>>, <<573, 573, 1, -163>>,
      <<574, 574, 1, 10792>>, <<577, 577, 1, 1>>, <<579, 579, 1, -195>>, <<580, 580, 1, 69>>,
      <<581, 581, 1, 71>>, <<582, 590, 2, 1>>, <<880, 882, 2, 1>>, <<886, 886, 1, 1>>,
      <<895, 895, 1, 116>>, <<902, 902, 1, 38>>, <<904, 906, 1, 37>>, <<908, 908, 1, 64>>,
      <<910, 911, 1, 63>>, <<913, 929, 1, 32>>, <<932, 939, 1, 32>>, <<975, 975, 1, 8>>,
      <<984, 1006, 2, 1>>, <<1012, 1012, 1, -60>>, <<1015, 1015, 1, 1>>, <<1017, 1017, 1, -7>>,
      <<1018, 1018, 1, 1>>, <<1021, 1023, 1, -130>>, <<1024, 1039, 1, 80>>, <<1040, 1071, 1, 32>>,
      <<1120, 1152, 2, 1>>, <<1162, 1214, 2, 1>>, <<1216, 1216, 1, 15>>, <<1217, 1229, 2, 1>>,
      <<1232, 1326, 2, 1>>, <<1329, 1366, 1, 48>>, <<4256, 4293, 1, 7264>>, <<4295, 4295, 1, 7264>>,
      <<4301, 4301, 1, 7264>>, <<5024, 5103, 1, 38864>>, <<5104, 5109, 1, 8>>, <<7312, 7354, 1, -3008>>,
      <<7357, 7359, 1, -3008>>, <<7680, 7828, 2, 1>>, <<7838, 7838, 1, -7615>>, <<7840, 7934, 2, 1>>,
      <<7944, 7951, 1, -8>>, <<7960, 7965, 1, -8>>, <<7976, 7983, 1, -8>>, <<7992, 7999, 1, -8>>,
      <<8008, 8013, 1, -8>>, <<8025, 8031, 2, -8>>, <<8040, 8047, 1, -8>>, <<8072, 8079, 1, -8>>,
      <<8088, 8095, 1, -8>>, <<8104, 8111, 1, -8>>, <<8120, 8121, 1, -8>>, <<8122, 8123, 1, -74>>,
      <<8124, 8124, 1, -9>>, <<8136, 8139, 1, -86>>, <<8140, 8140, 1, -9>>, <<8152, 8153, 1, -8>>,
      <<8154, 8155, 1, -100>>, <<8168, 8169, 1, -8>>, <<8170, 8171, 1, -112>>, <<8172, 8172, 1, -7>>,
      <<8184, 8185, 1, -128>>, <<8186, 8187, 1, -126>>, <<8188, 8188, 1, -9>>, <<8486, 8486, 1, -7517>>,
      <<8490, 8490, 1, -8383>>, <<8491, 8491, 1, -8262>>, <<8498, 8498, 1, 28>>, <<8544, 8559, 1, 16>>,
      <<8579, 8579, 1, 1>>, <<9398, 9423, 1, 26>>, <<11264, 11311, 1, 48>>, <<11360, 11360, 1, 1>>,
      <<11362, 11362, 1, -10743>>, <<11363, 11363, 1, -3814>>, <<11364, 11364, 1, -10727>>, <<11367, 11371, 2, 1>>,
      <<11373, 11373, 1, -10780>>, <<11374, 11374, 1, -10749>>, <<11375, 11375, 1, -10783>>, <<11376, 11376, 1, -10782>>,
      <<11378, 11378, 1, 1>>, <<11381, 11381, 1, 1>>, <<11390, 11391, 1, -10815>>, <<11392, 11490, 2, 1>>,
      <<11499, 11501, 2, 1>>, <<11506, 11506, 1, 1>>, <<42560, 42604, 2, 1>>, <<42624, 42650, 2, 1>>,
      <<42786, 42798, 2, 1>>, <<42802, 42862, 2, 1>>, <<42873, 42875, 2, 1>>, <<42877, 42877, 1, -35332>>,
      <<42878, 42886, 2, 1>>, <<42891, 42891, 1, 1>>, <<42893, 42893, 1, -42280>>, <<42896, 42898, 2, 1>>,
      <<42902, 42920, 2, 1>>, <<42922, 42922, 1, -42308>>, <<42923, 42923, 1, -42319>>, <<42924, 42924, 1, -42315>>,
      <<42925, 42925, 1, -42305>>, <<42926, 42926, 1, -42308>>, <<42928, 42928, 1, -42258>>, <<42929, 42929, 1, -42282>>,
      <<42930, 42930, 1, -42261>>, <<42931, 42931, 1, 928>>, <<42932, 42946, 2, 1>>, <<42948, 42948, 1, -48>>,
      <<42949, 42949, 1, -42307>>, <<42950, 42950, 1, -35384>>, <<42951, 42953, 2, 1>>, <<42960, 42960, 1, 1>>,
      <<42966, 42968, 2, 1>>, <<42997, 42997, 1, 1>>, <<65313, 65338, 1, 32>>, <<66560, 66599, 1, 40>>,
      <<66736, 66771, 1, 40>>, <<66928, 66938, 1, 39>>, <<66940, 66954, 1, 39>>, <<66956, 66962, 1, 39>>,
      <<66964, 66965, 1, 39>>, <<68736, 68786, 1, 64>>, <<71840, 71871, 1, 32>>, <<93760, 93791, 1, 32>>,
      <<125184, 125217, 1, 34>> }

in_run(c, r) == r[1] <= c /\ c <= r[2] /\ (c - r[1]) % r[3] = 0

\* The lowercase of one character other than capital sigma: U+0130 gives two
\* characters ('i' and the combining dot above), a character of no run is
\* its own lowercase.
lower_char(c) ==
    IF c = 304 THEN <<105, 775>>
    ELSE IF \E r \in LowerRuns : in_run(c, r)
    THEN << c + (CHOOSE r \in LowerRuns : in_run(c, r))[4] >>
    ELSE << c >>

\* The ranges <<first, last>> of the characters str.lower() takes as cased
\* (and not case-ignorable) when it looks at the neighbours of a capital sigma.
CasedLetters ==
    { <<65, 90>>, <<97, 122>>, <<170, 170>>, <<181, 181>>, <<186, 186>>, <<192, 214>>,
      <<216, 246>>, <<248, 442>>, <<444, 447>>, <<452, 659>>, <<661, 687>>, <<880, 883>>,
      <<886, 887>>, <<891, 893>>, <<895, 895>>, <<902, 902>>, <<904, 906>>, <<908, 908>>,
      <<910, 929>>, <<931, 1013>>, <<1015, 1153>>, <<1162, 1327>>, <<1329, 1366>>, <<1376, 1416>>,
      <<4256, 4293>>, <<4295, 4295>>, <<4301, 4301>>, <<4304, 4346>>, <<4349, 4351>>, <<5024, 5109>>,
      <<5112, 5117>>, <<7296, 7304>>, <<7312, 7354>>, <<7357, 7359>>, <<7424, 7467>>, <<7531, 7543>>,
      <<7545, 7578>>, <<7680, 7957>>, <<7960, 7965>>, <<7968, 8005>>, <<8008, 8013>>, <<8016, 8023>>,
      <<8025, 8025>>, <<8027, 8027>>, <<8029, 8029>>, <<8031, 8061>>, <<8064, 8116>>, <<8118, 8124>>,
      <<8126, 8126>>, <<8130, 8132>>, <<8134, 8140>>, <<8144, 8147>>, <<8150, 8155>>, <<8160, 8172>>,
      <<8178, 8180>>, <<8182, 8188>>, <<8450, 8450>>, <<8455, 8455>>, <<8458, 8467>>, <<8469, 8469>>,
      <<8473, 8477>>, <<8484, 8484>>, <<8486, 8486>>, <<8488, 8488>>, <<8490, 8493>>, <<8495, 8500>>,
      <<8505, 8505>>, <<8508, 8511>>, <<8517, 8521>>, <<8526, 8526>>, <<8544, 8575>>, <<8579, 8580>>,
      <<9398, 9449>>, <<11264, 11387>>, <<11390, 11492>>, <<11499, 11502>>, <<11506, 11507>>, <<11520, 11557>>,
      <<11559, 11559>>, <<11565, 11565>>, <<42560, 42605>>, <<42624, 42651>>, <<42786, 42863>>, <<42865, 42887>>,
      <<42891, 42894>>, <<42896, 42954>>, <<42960, 42961>>, <<42963, 42963>>, <<42965, 42969>>, <<42997, 42998>>,
      <<43002, 43002>>, <<43824, 43866>>, <<43872, 43880>>, <<43888, 43967>>, <<64256, 64262>>, <<64275, 64279>>,
      <<65313, 65338>>, <<65345, 65370>>, <<66560, 66639>>, <<66736, 66771>>, <<66776, 66811>>, <<66928, 66938>>,
      <<66940, 66954>>, <<66956, 66962>>, <<66964, 66965>>, <<66967, 66977>>, <<66979, 66993>>, <<66995, 67001>>,
      <<67003, 67004>>, <<68736, 68786>>, <<68800, 68850>>, <<71840, 71903>>, <<93760, 93823>>, <<119808, 119892>>,
      <<119894, 119964>>, <<119966, 119967>>, <<119970, 119970>>, <<119973, 119974>>, <<119977, 119980>>, <<119982, 119993>>,
      <<119995, 119995>>, <<119997, 120003>>, <<120005, 120069>>, <<120071, 120074>>, <<120077, 120084>>, <<120086, 120092>>,
      <<120094, 120121>>, <<120123, 120126>>, <<120128, 120132>>, <<120134, 120134>>, <<120138, 120144>>, <<120146, 120485>>,
      <<120488, 120512>>, <<120514, 120538>>, <<120540, 120570>>, <<120572, 120596>>, <<120598, 120628>>, <<120630, 120654>>,
      <<120656, 120686>>, <<120688, 120712>>, <<120714, 120744>>, <<120746, 120770>>, <<120772, 120779>>, <<122624, 122633>>,
      <<122635, 122654>>, <<125184, 125251>>, <<127280, 127305>>, <<127312, 127337>>, <<127344, 127369>> }

\* The ranges <<first, last>> of the case-ignorable characters.
CaseIgnorable ==
    { <<39, 39>>, <<46, 46>>, <<58, 58>>, <<94, 94>>, <<96, 96>>, <<168, 168>>,
      <<173, 173>>, <<175, 175>>, <<180, 180>>, <<183, 184>>, <<688, 879>>, <<884, 885>>,
      <<890, 890>>, <<900, 901>>, <<903, 903>>, <<1155, 1161>>, <<1369, 1369>>, <<1375, 1375>>,
      <<1425, 1469>>, <<1471, 1471>>, <<1473, 1474>>, <<1476, 1477>>, <<1479, 1479>>, <<1524, 1524>>,
      <<1536, 1541>>, <<1552, 1562>>, <<1564, 1564>>, <<1600, 1600>>, <<1611, 1631>>, <<1648, 1648>>,
      <<1750, 1757>>, <<1759, 1768>>, <<1770, 1773>>, <<1807, 1807>>, <<1809, 1809>>, <<1840, 1866>>,
      <<1958, 1968>>, <<2027, 2037>>, <<2042, 2042>>, <<2045, 2045>>, <<2070, 2093>>, <<2137, 2139>>,
      <<2184, 2184>>, <<2192, 2193>>, <<2200, 2207>>, <<2249, 2306>>, <<2362, 2362>>, <<2364, 2364>>,
      <<2369, 2376>>, <<2381, 2381>>, <<2385, 2391>>, <<2402, 2403>>, <<2417, 2417>>, <<2433, 2433>>,
      <<2492, 2492>>, <<2497, 2500>>, <<2509, 2509>>, <<2530, 2531>>, <<2558, 2558>>, <<2561, 2562>>,
      <<2620, 2620>>, <<2625, 2626>>, <<2631, 2632>>, <<2635, 2637>>, <<2641, 2641>>, <<2672, 2673>>,
      <<2677, 2677>>, <<2689, 2690>>, <<2748, 2748>>, <<2753, 2757>>, <<2759, 2760>>, <<2765, 2765>>,
      <<2786, 2787>>, <<2810, 2815>>, <<2817, 2817>>, <<2876, 2876>>, <<2879, 2879>>, <<2881, 2884>>,
      <<2893, 2893>>, <<2901, 2902>>, <<2914, 2915>>, <<2946, 2946>>, <<3008, 3008>>, <<3021, 3021>>,
      <<3072, 3072>>, <<3076, 3076>>, <<3132, 3132>>, <<3134, 3136>>, <<3142, 3144>>, <<3146, 3149>>,
      <<3157, 3158>>, <<3170, 3171>>, <<3201, 3201>>, <<3260, 3260>>, <<3263, 3263>>, <<3270, 3270>>,
      <<3276, 3277>>, <<3298, 3299>>, <<3328, 3329>>, <<3387, 3388>>, <<3393, 3396>>, <<3405, 3405>>,
      <<3426, 3427>>, <<3457, 3457>>, <<3530, 3530>>, <<3538, 3540>>, <<3542, 3542>>, <<3633, 3633>>,
      <<3636, 3642>>, <<3654, 3662>>, <<3761, 3761>>, <<3764, 3772>>, <<3782, 3782>>, <<3784, 3789>>,
      <<3864, 3865>>, <<3893, 3893>>, <<3895, 3895>>, <<3897, 3897>>, <<3953, 3966>>, <<3968, 3972>>,
      <<3974, 3975>>, <<3981, 3991>>, <<3993, 4028>>, <<4038, 4038>>, <<4141, 4144>>, <<4146, 4151>>,
      <<4153, 4154>>, <<4157, 4158>>, <<4184, 4185>>, <<4190, 4192>>, <<4209, 4212>>, <<4226, 4226>>,
      <<4229, 4230>>, <<4237, 4237>>, <<4253, 4253>>, <<4348, 4348>>, <<4957, 4959>>, <<5906, 5908>>,
      <<5938, 5939>>, <<5970, 5971>>, <<6002, 6003>>, <<6068, 6069>>, <<6071, 6077>>, <<6086, 6086>>,
      <<6089, 6099>>, <<6103, 6103>>, <<6109, 6109>>, <<6155, 6159>>, <<6211, 6211>>, <<6277, 6278>>,
      <<6313, 6313>>, <<6432, 6434>>, <<6439, 6440>>, <<6450, 6450>>, <<6457, 6459>>, <<6679, 6680>>,
      <<6683, 6683>>, <<6742, 6742>>, <<6744, 6750>>, <<6752, 6752>>, <<6754, 6754>>, <<6757, 6764>>,
      <<6771, 6780>>, <<6783, 6783>>, <<6823, 6823>>, <<6832, 6862>>, <<6912, 6915>>, <<6964, 6964>>,
      <<6966, 6970>>, <<6972, 6972>>, <<6978, 6978>>, <<7019, 7027>>, <<7040, 7041>>, <<7074, 7077>>,
      <<7080, 7081>>, <<7083, 7085>>, <<7142, 7142>>, <<7144, 7145>>, <<7149, 7149>>, <<7151, 7153>>,
      <<7212, 7219>>, <<7222, 7223>>, <<7288, 7293>>, <<7376, 7378>>, <<7380, 7392>>, <<7394, 7400>>,
      <<7405, 7405>>, <<7412, 7412>>, <<7416, 7417>>, <<7468, 7530>>, <<7544, 7544>>, <<7579, 7679>>,
      <<8125, 8125>>, <<8127, 8129>>, <<8141, 8143>>, <<8157, 8159>>, <<8173, 8175>>, <<8189, 8190>>,
      <<8203, 8207>>, <<8216, 8217>>, <<8228, 8228>>, <<8231, 8231>>, <<8234, 8238>>, <<8288, 8292>>,
      <<8294, 8303>>, <<8305, 8305>>, <<8319, 8319>>, <<8336, 8348>>, <<8400, 8432>>, <<11388, 11389>>,
      <<11503, 11505>>, <<11631, 11631>>, <<11647, 11647>>, <<11744, 11775>>, <<11823, 11823>>, <<12293, 12293>>,
      <<12330, 12333>>, <<12337, 12341>>, <<12347, 12347>>, <<12441, 12446>>, <<12540, 12542>>, <<40981, 40981>>,
      <<42232, 42237>>, <<42508, 42508>>, <<42607, 42610>>, <<42612, 42621>>, <<42623, 42623>>, <<42652, 42655>>,
      <<42736, 42737>>, <<42752, 42785>>, <<42864, 42864>>, <<42888, 42890>>, <<42994, 42996>>, <<43000, 43001>>,
      <<43010, 43010>>, <<43014, 43014>>, <<43019, 43019>>, <<43045, 43046>>, <<43052, 43052>>, <<43204, 43205>>,
      <<43232, 43249>>, <<43263, 43263>>, <<43302, 43309>>, <<43335, 43345>>, <<43392, 43394>>, <<43443, 43443>>,
      <<43446, 43449>>, <<43452, 43453>>, <<43471, 43471>>, <<43493, 43494>>, <<43561, 43566>>, <<43569, 43570>>,
      <<43573, 43574>>, <<43587, 43587>>, <<43596, 43596>>, <<43632, 43632>>, <<43644, 43644>>, <<43696, 43696>>,
      <<43698, 43700>>, <<43703, 43704>>, <<43710, 43711>>, <<43713, 43713>>, <<43741, 43741>>, <<43756, 43757>>,
      <<43763, 43764>>, <<43766, 43766>>, <<43867, 43871>>, <<43881, 43883>>, <<44005, 44005>>, <<44008, 44008>>,
      <<44013, 44013>>, <<64286, 64286>>, <<64434, 64450>>, <<65024, 65039>>, <<65043, 65043>>, <<65056, 65071>>,
      <<65106, 65106>>, <<65109, 65109>>, <<65279, 65279>>, <<65287, 65287>>, <<65294, 65294>>, <<65306, 65306>>,
      <<65342, 65342>>, <<65344, 65344>>, <<65392, 65392>>, <<65438, 65439>>, <<65507, 65507>>, <<65529, 65531>>,
      <<66045, 66045>>, <<66272, 66272>>, <<66422, 66426>>, <<67456, 67461>>, <<67463, 67504>>, <<67506, 67514>>,
      <<68097, 68099>>, <<68101, 68102>>, <<68108, 68111>>, <<68152, 68154>>, <<68159, 68159>>, <<68325, 68326>>,
      <<68900, 68903>>, <<69291, 69292>>, <<69446, 69456>>, <<69506, 69509>>, <<69633, 69633>>, <<69688, 69702>>,
      <<69744, 69744>>, <<69747, 69748>>, <<69759, 69761>>, <<69811, 69814>>, <<69817, 69818>>, <<69821, 69821>>,
      <<69826, 69826>>, <<69837, 69837>>, <<69888, 69890>>, <<69927, 69931>>, <<69933, 69940>>, <<70003, 70003>>,
      <<70016, 70017>>, <<70070, 70078>>, <<70089, 70092>>, <<70095, 70095>>, <<70191, 70193>>, <<70196, 70196>>,
      <<70198, 70199>>, <<70206, 70206>>, <<70367, 70367>>, <<70371, 70378>>, <<70400, 70401>>, <<70459, 70460>>,
      <<70464, 70464>>, <<70502, 70508>>, <<70512, 70516>>, <<70712, 70719>>, <<70722, 70724>>, <<70726, 70726>>,
      <<70750, 70750>>, <<70835, 70840>>, <<70842, 70842>>, <<70847, 70848>>, <<70850, 70851>>, <<71090, 71093>>,
      <<71100, 71101>>, <<71103, 71104>>, <<71132, 71133>>, <<71219, 71226>>, <<71229, 71229>>, <<71231, 71232>>,
      <<71339, 71339>>, <<71341, 71341>>, <<71344, 71349>>, <<71351, 71351>>, <<71453, 71455>>, <<71458, 71461>>,
      <<71463, 71467>>, <<71727, 71735>>, <<71737, 71738>>, <<71995, 71996>>, <<71998, 71998>>, <<72003, 72003>>,
      <<72148, 72151>>, <<72154, 72155>>, <<72160, 72160>>, <<72193, 72202>>, <<72243, 72248>>, <<72251, 72254>>,
      <<72263, 72263>>, <<72273, 72278>>, <<72281, 72283>>, <<72330, 72342>>, <<72344, 72345>>, <<72752, 72758>>,
      <<72760, 72765>>, <<72767, 72767>>, <<72850, 72871>>, <<72874, 72880>>, <<72882, 72883>>, <<72885, 72886>>,
      <<73009, 73014>>, <<73018, 73018>>, <<73020, 73021>>, <<73023, 73029>>, <<73031, 73031>>, <<73104, 73105>>,
      <<73109, 73109>>, <<73111, 73111>>, <<73459, 73460>>, <<78896, 78904>>, <<92912, 92916>>, <<92976, 92982>>,
      <<92992, 92995>>, <<94031, 94031>>, <<94095, 94111>>, <<94176, 94177>>, <<94179, 94180>>, <<110576, 110579>>,
      <<110581, 110587>>, <<110589, 110590>>, <<113821, 113822>>, <<113824, 113827>>, <<118528, 118573>>, <<118576, 118598>>,
      <<119143, 119145>>, <<119155, 119170>>, <<119173, 119179>>, <<119210, 119213>>, <<119362, 119364>>, <<121344, 121398>>,
      <<121403, 121452>>, <<121461, 121461>>, <<121476, 121476>>, <<121499, 121503>>, <<121505, 121519>>, <<122880, 122886>>,
      <<122888, 122904>>, <<122907, 122913>>, <<122915, 122916>>, <<122918, 122922>>, <<123184, 123197>>, <<123566, 123566>>,
      <<123628, 123631>>, <<125136, 125142>>, <<125252, 125259>>, <<127995, 127999>>, <<917505, 917505>>, <<917536, 917631>>,
      <<917760, 917999>> }

in_ranges(c, ranges) == \E r \in ranges : r[1] <= c /\ c <= r[2]

\* Capital sigma (U+03A3) lowers to the final form U+03C2 when the nearest
\* character before it that is not case-ignorable is cased, and the nearest
\* such character after it, if any, is not cased; to U+03C3 otherwise.
final_sigma(s, i) ==
    LET before == { j \in 1..(i - 1) : ~in_ranges(s[j], CaseIgnorable) }
        after == { j \in (i + 1)..Len(s) : ~in_ranges(s[j], CaseIgnorable) }
    IN /\ before # {}
       /\ in_ranges(s[CHOOSE j \in before : \A k \in before : k <= j], CasedLetters)
       /\ \/ after = {}
          \/ ~in_ranges(s[CHOOSE j \in after : \A k \in after : j <= k], CasedLetters)

RECURSIVE lower_from(_, _)
lower_from(s, i) ==
    IF i > Len(s) THEN <<>>
    ELSE (IF s[i] = 931 THEN << IF final_sigma(s, i) THEN 962 ELSE 963 >>
          ELSE lower_char(s[i])) \o lower_from(s, i + 1)

\* str.lower()
lower(s) == lower_from(s, 1)

\* name in s  (substring test)
contains(name, s) ==
    \E i \in 1..(Len(s) - Len(name) + 1) : SubSeq(s, i, i + Len(name) - 1) = name

\* any(name in summary for name in SLEEP_EVENT_NAMES)
any_sleep_name(summary) == \E name \in SLEEP_EVENT_NAMES : contains(name, summary)

\* 'Untitled'
Untitled == <<85, 110, 116, 105, 116, 108, 101, 100>>

\* event.get('summary', default)
get_summary(event, default) == IF event.has_summary THEN event.summary ELSE default

\* ------------------------------------------------------------ events
\* A CalendarEvent as the calendar API returns it: 'summary' may be absent,
\* 'start'/'end' hold either 'date' (all-day) or 'dateTime' (timed), and
\* 'attendees' is a list of {email, self}.
Timed(s) == [tag |-> "dateTime", dateTime |-> s]
AllDay(d) == [tag |-> "date", date |-> d]

Event(has_summary, summary, start, end, attendees) ==
    [has_summary |-> has_summary, summary |-> summary,
     start |-> start, end |-> end, attendees |-> attendees]

MyEmail == "me@example.com"
Att(email, self) == [email |-> email, self |-> self]
Me == Att(MyEmail, FALSE)
MeAlias == Att("alias@example.com", TRUE)
Bob == Att("bob@example.com", FALSE)

\* The titles 'Gym', 'Sleep', 'AWAKE', 'WAKE' written with U+212A KELVIN SIGN
\* for its K, and 'ECOLE' written with U+00C9 for its E.
Gym == <<71, 121, 109>>
Sleep == <<83, 108, 101, 101, 112>>
AWAKE == <<65, 87, 65, 75, 69>>
KelvinWAKE == <<87, 65, 8490, 69>>
ECOLE == <<201, 67, 79, 76, 69>>

\* The events the calendar can return for the day (day 1 is today).
EventPool ==
    { Event(TRUE, Gym, Timed(Ser(T(1,7,30,0), 0, 0, "Z", 0)),
                       Timed(Ser(T(1,8,30,0), 0, 0, "Z", 0)), <<>>),
      Event(FALSE, <<>>, Timed(Ser(T(1,10,0,0), 0, 0, "num", -300)),
                         Timed(Ser(T(1,11,0,0), 0, 0, "num", -300)), <<Me>>),
      Event(TRUE, Gym, Timed(Ser(T(1,23,30,0), 0, 0, "num", 330)),
                       Timed(Ser(T(2,0,15,0), 0, 0, "num", 330)), <<MeAlias>>),
      Event(TRUE, Gym, Timed(Ser(T(1,9,0,0), 0, 0, "num", -300)),
                       Timed(Ser(T(1,9,30,0), 0, 0, "num", -300)), <<Me, Bob>>),
      Event(TRUE, Sleep, Timed(Ser(T(0,23,0,0), 0, 0, "num", -300)),
                         Timed(Ser(T(1,7,0,0), 0, 0, "num", -300)), <<>>),
      Event(TRUE, AWAKE, Timed(Ser(T(1,6,0,0), 0, 0, "Z", 0)),
                         Timed(Ser(T(1,7,0,0), 0, 0, "Z", 0)), <<Bob>>),
      Event(FALSE, <<>>, Timed(Ser(T(1,14,0,0), 0, 0, "Z", 0)),
                         Timed(Ser(T(1,15,0,0), 0, 0, "Z", 0)), <<Bob>>),
      Event(TRUE, Sleep, Timed(Ser(T(1,13,0,0), 0, 0, "num", -300)),
                         Timed(Ser(T(1,13,20,0), 0, 0, "num", -300)), <<MeAlias>>),
      Event(TRUE, KelvinWAKE, Timed(Ser(T(1,5,0,0), 0, 0, "Z", 0)),
                              Timed(Ser(T(1,7,30,0), 0, 0, "Z", 0)), <<Bob>>),
      Event(TRUE, ECOLE, Timed(Ser(T(1,16,0,0), 0, 0, "Z", 0)),
                         Timed(Ser(T(1,17,0,0), 0, 0, "Z", 0)), <<>>),
      Event(TRUE, Gym, AllDay(1), AllDay(2), <<>>),
      Event(TRUE, Gym, AllDay(1), AllDay(2), <<Bob>>),
      Event(TRUE, Sleep, AllDay(1), AllDay(2), <<>>) }

RECURSIVE SeqsUpTo(_, _)
SeqsUpTo(S, n) ==
    IF n = 0 THEN { <<>> }
    ELSE LET shorter == SeqsUpTo(S, n - 1)
         IN shorter \cup { Append(q, x) : q \in {p \in shorter : Len(p) = n - 1}, x \in S }

EventLists == SeqsUpTo(EventPool, MaxEvents)

\* ------------------------------------------------------------ selection
\* Variant of is_solo_event: solo as soon as one attendee is the user
is_solo_event_any_self(event, my_email) ==
    \/ event.attendees = <<>>
    \/ \E k \in 1..Len(event.attendees) :
          event.attendees[k].email = my_email \/ event.attendees[k].self

\* is_solo_event(event, my_email)
is_solo_event(event, my_email) ==
    LET attendees == event.attendees
        other_attendees ==
            SelectSeq(attendees, LAMBDA a : a.email # my_email /\ ~a.self)
    IN IF attendees = <<>> THEN TRUE ELSE Len(other_attendees) = 0

\* find_sleep_event(events): the index of the first event whose lower-cased
\* summary contains a sleep name, 0 for None
find_sleep_event(events) ==
    LET hits == { i \in 1..Len(events) :
                    any_sleep_name(lower(get_summary(events[i], <<>>))) }
    IN IF hits = {} THEN 0 ELSE CHOOSE i \in hits : \A j \in hits : i <= j

\* get_expected_wake_time(events)
get_expected_wake_time(events) ==
    LET i == find_sleep_event(events)
    IN IF i = 0 THEN NoneDT
       ELSE IF events[i].end.tag # "dateTime" THEN NoneDT
       ELSE fromisoformat(events[i].end.dateTime)

\* ------------------------------------------------------------ shifting
\* Variant of shift_event: an offset that is not positive shifts nothing
shift_event_forward_only(event, offset_minutes) ==
    IF event.start.tag = "dateTime" /\ offset_minutes > 0
    THEN LET new_start == plus_minutes(fromisoformat(event.start.dateTime), offset_minutes)
             new_end == plus_minutes(fromisoformat(event.end.dateTime), offset_minutes)
         IN [event |-> IF event.start.dateTime.zone = "Z"
                       THEN [event EXCEPT !.start.dateTime = strftime_Z(new_start),
                                          !.end.dateTime = strftime_Z(new_end)]
                       ELSE [event EXCEPT !.start.dateTime = isoformat(new_start),
                                          !.end.dateTime = isoformat(new_end)],
             update |-> TRUE, ret |-> TRUE]
    ELSE [event |-> event, update |-> FALSE, ret |-> FALSE]

\* shift_event(service, event, offset_minutes): the event as rewritten in
\* place, whether events().update(...) is called, and the return value.
shift_event(event, offset_minutes) ==
    IF event.start.tag = "dateTime"
    THEN LET start_dt == fromisoformat(event.start.dateTime)
             end_dt == fromisoformat(event.end.dateTime)
             new_start == plus_minutes(start_dt, offset_minutes)
             new_end == plus_minutes(end_dt, offset_minutes)
             shifted_event ==
                 IF event.start.dateTime.zone = "Z"
                 THEN [event EXCEPT !.start.dateTime = strftime_Z(new_start),
                                    !.end.dateTime = strftime_Z(new_end)]
                 ELSE [event EXCEPT !.start.dateTime = isoformat(new_start),
                                    !.end.dateTime = isoformat(new_end)]
         IN [event |-> shifted_event, update |-> TRUE, ret |-> TRUE]
    ELSE [event |-> event, update |-> FALSE, ret |-> FALSE]

\* ------------------------------------------------------------ wake time
\* A sleep session of the provider: 'bedtime_end' present or not.
Session(present, text) == [present |-> present, bedtime_end |-> text]

\* Python's str comparison of two bedtime_end keys (x.get('bedtime_end', '')).
\* The first 19 characters 'YYYY-MM-DDTHH:MM:SS' are zero-padded, so they
\* compare as secs does; the rest of the text is compared character by
\* character on the code points ('+' 43, '-' 45, '.' 46, '0'..'9' 48..57,
\* ':' 58, 'Z' 90), a proper prefix being the smaller.
abs(n) == IF n < 0 THEN -n ELSE n

\* '.' and the fd fraction digits as written (fd <= 6)
fraction_text(s) ==
    IF s.fd = 0 THEN <<>>
    ELSE <<46>> \o [k \in 1..s.fd |->
                      48 + ((s.micro \div <<100000, 10000, 1000, 100, 10, 1>>[k]) % 10)]

\* '', 'Z' or the sign and 'HH:MM' of the UTC offset
zone_text(s) ==
    IF s.zone = "naive" THEN <<>>
    ELSE IF s.zone = "Z" THEN <<90>>
    ELSE LET h == abs(s.off) \div 60
             m == abs(s.off) % 60
         IN << IF s.off < 0 THEN 45 ELSE 43,
               48 + (h \div 10), 48 + (h % 10), 58, 48 + (m \div 10), 48 + (m % 10) >>

\* the characters of the text after the 19th
tail_text(s) == fraction_text(s) \o zone_text(s)

\* x < y for two strings given as sequences of code points
seq_lt(x, y) ==
    \E k \in 1..Len(y) :
        /\ k - 1 <= Len(x)
        /\ \A j \in 1..(k - 1) : x[j] = y[j]
        /\ (k = Len(x) + 1 \/ x[k] < y[k])

str_lt(a, b) ==
    IF ~b.present THEN FALSE
    ELSE IF ~a.present THEN TRUE
    ELSE LET x == a.bedtime_end
             y == b.bedtime_end
         IN \/ x.secs < y.secs
            \/ x.secs = y.secs /\ seq_lt(tail_text(x), tail_text(y))

\* max(sessions, key=lambda x: x.get('bedtime_end', '')): the first maximal one
max_by_bedtime_end(sessions) ==
    LET i == CHOOSE i \in 1..Len(sessions) :
                 /\ \A j \in 1..Len(sessions) : ~str_lt(sessions[i], sessions[j])
                 /\ \A j \in 1..(i - 1) : str_lt(sessions[j], sessions[i])
    IN sessions[i]

\* end_dt.date(): the calendar day of the wall-clock fields
date_of(dt) == dt.secs \div 86400

\* An exception that leaves the function (nothing is returned).
Raised == [tag |-> "raise"]

\* get_oura_wake_time() on the provider's answer resp:
\*   resp.token_error : get_oura_token() raised (the token refresh request
\*                      failed); the call is outside the try block
\*   resp.token  : get_oura_token() returned a token
\*   resp.error  : requests raised a RequestException
\*   resp.today  : datetime.now().date()
\*   resp.sessions : data.get('data', [])
get_oura_wake_time(resp) ==
    IF resp.token_error THEN Raised
    ELSE IF ~resp.token THEN NoneDT
    ELSE IF resp.error THEN NoneDT
    ELSE IF resp.sessions = <<>> THEN NoneDT
    ELSE LET today_sessions ==
                 SelectSeq(resp.sessions,
                           LAMBDA s : /\ s.present
                                      /\ date_of(fromisoformat(s.bedtime_end)) = resp.today)
             latest_sleep ==
                 IF today_sessions # <<>> THEN max_by_bedtime_end(today_sessions)
                 ELSE max_by_bedtime_end(resp.sessions)
         IN IF latest_sleep.present THEN fromisoformat(latest_sleep.bedtime_end)
            ELSE NoneDT

NoEnd == Session(FALSE, Ser(0, 0, 0, "naive", 0))
Ends(s) == Session(TRUE, s)

Resp(token, error, sessions) ==
    [token_error |-> FALSE, token |-> token, error |-> error, today |-> 1,
     sessions |-> sessions]

\* The cached token is expired and the refresh request raises.
RespTokenError == [Resp(FALSE, FALSE, <<>>) EXCEPT !.token_error = TRUE]

\* The answers the sleep provider can give.
OuraResponses ==
    { RespTokenError,
      Resp(FALSE, FALSE, <<>>),
      Resp(TRUE, TRUE, <<>>),
      Resp(TRUE, FALSE, <<>>),
      Resp(TRUE, FALSE, <<NoEnd>>),
      Resp(TRUE, FALSE, <<Ends(Ser(T(1,8,15,0), 0, 0, "num", -300))>>),
      Resp(TRUE, FALSE, <<Ends(Ser(T(1,7,0,59), 3, 500000, "num", -300))>>),
      Resp(TRUE, FALSE, <<Ends(Ser(T(1,6,59,30), 0, 0, "num", -300))>>),
      Resp(TRUE, FALSE, <<Ends(Ser(T(1,12,15,0), 0, 0, "Z", 0))>>),
      Resp(TRUE, FALSE, <<Ends(Ser(T(1,7,0,0), 0, 0, "num", -300)),
                          Ends(Ser(T(0,6,30,0), 0, 0, "num", -300))>>),
      Resp(TRUE, FALSE, <<Ends(Ser(T(0,9,45,0), 0, 0, "num", -300))>>) }

\* ------------------------------------------------------------ offset
\* (actual_wake_naive - expected_wake_naive): a timedelta, normalized as
\* Python does to whole seconds plus 0 <= microseconds < 10^6
timedelta_of(a, e) ==
    LET dm == a.micro - e.micro
    IN [seconds |-> (a.secs - e.secs) + (IF dm < 0 THEN -1 ELSE 0),
        microseconds |-> IF dm < 0 THEN dm + 1000000 ELSE dm]

\* Variant of offset_minutes_of: floor division (//) instead of int(.../60)
offset_minutes_floor(delta) == delta.seconds \div 60

\* int(offset_delta.total_seconds() / 60): int() truncates toward zero
offset_minutes_of(delta) ==
    IF delta.seconds >= 0 THEN delta.seconds \div 60
    ELSE LET whole == (-delta.seconds) - (IF delta.microseconds > 0 THEN 1 ELSE 0)
         IN -(whole \div 60)

\* ------------------------------------------------------------ main
\* args.offset: absent (None) or the integer given on the command line
NoOffset == [given |-> FALSE, value |-> 0]
Offset(n) == [given |-> TRUE, value |-> n]
OffsetArgs == { NoOffset, Offset(0), Offset(-30), Offset(45), Offset(75) }

\* `if args.offset:` -- None and 0 are both falsy
truthy_offset(offset_arg) == offset_arg.given /\ offset_arg.value # 0

\* The state of one run of main() right after parse_args().  cls is the
\* branch taken for each event the loop has reached, updates the calls of
\* events().update() issued, oura_queries / marker_lookups the number of
\* calls of get_oura_wake_time / get_expected_wake_time, resp the sleep
\* provider's answer to the last query, fetched whether get_todays_events
\* has returned.
StartRun(dry_run, offset_arg) ==
    [pc |-> "start", dry_run |-> dry_run, offset_arg |-> offset_arg,
     my_email |-> MyEmail, fetched |-> FALSE, events |-> <<>>,
     actual_wake |-> NoneDT, expected_wake |-> NoneDT,
     offset_set |-> FALSE, offset_minutes |-> 0,
     i |-> 0, shifted |-> 0, skipped |-> 0,
     cls |-> <<>>, updates |-> <<>>,
     oura_queries |-> 0, marker_lookups |-> 0,
     resp |-> Resp(FALSE, FALSE, <<>>)]

IdleRun == [StartRun(FALSE, NoOffset) EXCEPT !.pc = "idle"]

\* What the calendar collaborator does between parse_args() and the fetched
\* list: "ok"; "exit1", get_calendar_service() finds neither token.json nor
\* credentials.json and calls exit(1); "raises", the credential refresh,
\* calendars().get(...).execute() or events().list(...).execute() raises.
FetchOutcomes == { "ok", "exit1", "raises" }

\* service = get_calendar_service(); calendar = ...; my_email = ...;
\* events = get_todays_events(service, args.calendar)
main_fetch(r, outcome, evs) ==
    IF outcome = "exit1" THEN [r EXCEPT !.pc = "exit1"]
    ELSE IF outcome = "raises" THEN [r EXCEPT !.pc = "crashed"]
    ELSE [r EXCEPT !.fetched = TRUE, !.events = evs, !.pc = "fetched"]

\* Variant of main_resolve: failed detection falls back to offset 0
main_resolve_fallback(r, resp) ==
    IF truthy_offset(r.offset_arg)
    THEN [r EXCEPT !.offset_set = TRUE, !.offset_minutes = r.offset_arg.value,
                   !.pc = "resolved"]
    ELSE LET actual_wake == get_oura_wake_time(resp)
             expected_wake == get_expected_wake_time(r.events)
         IN IF actual_wake = Raised
            THEN [r EXCEPT !.oura_queries = @ + 1, !.resp = resp, !.pc = "crashed"]
            ELSE IF actual_wake = NoneDT \/ expected_wake = NoneDT
            THEN [r EXCEPT !.oura_queries = @ + 1, !.resp = resp,
                           !.offset_set = TRUE, !.offset_minutes = 0,
                           !.pc = "resolved"]
            ELSE [r EXCEPT !.oura_queries = @ + 1, !.marker_lookups = @ + 1,
                           !.resp = resp,
                           !.actual_wake = actual_wake,
                           !.expected_wake = expected_wake,
                           !.offset_set = TRUE,
                           !.offset_minutes =
                               offset_minutes_of(timedelta_of(strip_tz(actual_wake),
                                                              strip_tz(expected_wake))),
                           !.pc = "resolved"]

\* if args.offset: ... else: ... (offset resolution); resp is the sleep
\* provider's answer, consulted only on the automatic path
main_resolve(r, resp) ==
    IF truthy_offset(r.offset_arg)
    THEN [r EXCEPT !.offset_set = TRUE, !.offset_minutes = r.offset_arg.value,
                   !.pc = "resolved"]
    ELSE LET actual_wake == get_oura_wake_time(resp)
             expected_wake == get_expected_wake_time(r.events)
         IN IF actual_wake = Raised
            THEN [r EXCEPT !.oura_queries = @ + 1, !.resp = resp, !.pc = "crashed"]
            ELSE IF actual_wake = NoneDT
            THEN [r EXCEPT !.oura_queries = @ + 1, !.resp = resp, !.pc = "exit1"]
            ELSE IF expected_wake = NoneDT
            THEN [r EXCEPT !.oura_queries = @ + 1, !.marker_lookups = @ + 1,
                           !.resp = resp,
                           !.actual_wake = actual_wake, !.pc = "exit1"]
            ELSE [r EXCEPT !.oura_queries = @ + 1, !.marker_lookups = @ + 1,
                           !.resp = resp,
                           !.actual_wake = actual_wake,
                           !.expected_wake = expected_wake,
                           !.offset_set = TRUE,
                           !.offset_minutes =
                               offset_minutes_of(timedelta_of(strip_tz(actual_wake),
                                                              strip_tz(expected_wake))),
                           !.pc = "resolved"]

\* Variant of main_check: only a negative offset stops the run
main_check_strict(r) ==
    IF r.offset_minutes < 0 THEN [r EXCEPT !.pc = "exit0"]
    ELSE [r EXCEPT !.pc = "loop"]

\* if offset_minutes <= 0: exit(0)
main_check(r) ==
    IF r.offset_minutes <= 0 THEN [r EXCEPT !.pc = "exit0"]
    ELSE [r EXCEPT !.pc = "loop"]

\* Variant of classify: the title is matched without lower()
classify_case_sensitive(event, my_email) ==
    IF any_sleep_name(get_summary(event, Untitled)) THEN "SLEEP_MARKER"
    ELSE IF event.start.tag = "date" THEN "ALL_DAY"
    ELSE IF ~is_solo_event(event, my_email) THEN "HAS_ATTENDEES"
    ELSE IF event.start.tag = "dateTime" THEN "SHIFTABLE"
    ELSE "UNCLASSIFIED"

\* The branch the loop body takes for one event.
classify(event, my_email) ==
    IF any_sleep_name(lower(get_summary(event, Untitled))) THEN "SLEEP_MARKER"
    ELSE IF event.start.tag = "date" THEN "ALL_DAY"
    ELSE IF ~is_solo_event(event, my_email) THEN "HAS_ATTENDEES"
    ELSE IF event.start.tag = "dateTime" THEN "SHIFTABLE"
    ELSE "UNCLASSIFIED"

\* Variant of main_loop: the has-attendees branch lacks its `continue`
main_loop_no_continue(r, ok) ==
    LET n == r.i + 1
        event == r.events[n]
        class == classify(event, r.my_email)
        seen == [r EXCEPT !.cls = Append(@, class)]
    IN IF class \in {"SLEEP_MARKER", "ALL_DAY"}
       THEN [seen EXCEPT !.skipped = @ + 1, !.i = n]
       ELSE IF class = "UNCLASSIFIED"
       THEN [seen EXCEPT !.i = n]
       ELSE LET counted == IF class = "HAS_ATTENDEES"
                           THEN [seen EXCEPT !.skipped = @ + 1] ELSE seen
            IN IF r.dry_run
               THEN [counted EXCEPT !.shifted = @ + 1, !.i = n]
               ELSE LET res == shift_event(event, r.offset_minutes)
                        called == [counted EXCEPT !.events[n] = res.event,
                                                  !.updates = Append(@, [id |-> n, ok |-> ok])]
                    IN IF ok
                       THEN [called EXCEPT !.shifted = @ + 1, !.i = n]
                       ELSE [called EXCEPT !.pc = "crashed"]

\* One iteration of `for event in events:`; ok is the outcome of
\* events().update(...).execute(), which raises when it fails.
main_loop(r, ok) ==
    LET n == r.i + 1
        event == r.events[n]
        class == classify(event, r.my_email)
        seen == [r EXCEPT !.cls = Append(@, class)]
    IN IF class \in {"SLEEP_MARKER", "ALL_DAY", "HAS_ATTENDEES"}
       THEN [seen EXCEPT !.skipped = @ + 1, !.i = n]
       ELSE IF class = "UNCLASSIFIED"
       THEN [seen EXCEPT !.i = n]
       ELSE IF r.dry_run
       THEN [seen EXCEPT !.shifted = @ + 1, !.i = n]
       ELSE LET res == shift_event(event, r.offset_minutes)
                called == [seen EXCEPT !.events[n] = res.event,
                                       !.updates = Append(@, [id |-> n, ok |-> ok])]
            IN IF ok
               THEN [called EXCEPT !.shifted = @ + 1, !.i = n]
               ELSE [called EXCEPT !.pc = "crashed"]

\* print(f"\nDone! ..."): the loop is exhausted and main() returns
main_done(r) == [r EXCEPT !.pc = "done"]

Terminated(r) == r.pc \in {"done", "exit0", "exit1", "crashed"}

\* The exit status of a terminated run: exit(1) and an uncaught exception
\* give 1, exit(0) and a normal return give 0.
ExitStatus(r) == IF r.pc \in {"exit1", "crashed"} THEN 1 ELSE 0

\* ------------------------------------------------------------ one run
NoShift == [phase |-> "idle"]
NoCall == [phase |-> "idle"]

Init ==
    /\ \E d \in BOOLEAN, o \in OffsetArgs : run = StartRun(d, o)
    /\ twin = IdleRun
    /\ sh = NoShift
    /\ call = NoCall

FetchEvents ==
    /\ run.pc = "start"
    /\ \E outcome \in FetchOutcomes :
          \E evs \in (IF outcome = "ok" THEN EventLists ELSE { <<>> }) :
              run' = main_fetch(run, outcome, evs)
    /\ UNCHANGED <<twin, sh, call>>

ResolveOffset ==
    /\ run.pc = "fetched"
    /\ \E resp \in OuraResponses : run' = main_resolve(run, resp)
    /\ UNCHANGED <<twin, sh, call>>

CheckOffset ==
    /\ run.pc = "resolved"
    /\ run' = main_check(run)
    /\ UNCHANGED <<twin, sh, call>>

ProcessEvent ==
    /\ run.pc = "loop"
    /\ run.i < Len(run.events)
    /\ \E ok \in BOOLEAN : run' = main_loop(run, ok)
    /\ UNCHANGED <<twin, sh, call>>

Finish ==
    /\ run.pc = "loop"
    /\ run.i = Len(run.events)
    /\ run' = main_done(run)
    /\ UNCHANGED <<twin, sh, call>>

Next == FetchEvents \/ ResolveOffset \/ CheckOffset \/ ProcessEvent \/ Finish

Spec == Init /\ [][Next]_vars

\* ------------------------------------------------------------ two runs
\* A --dry-run run (run) and a live run (twin) of main() with the same
\* command-line offset, given the same fetched events and the same answer
\* of the sleep provider.
main_step(r, ok) ==
    IF r.pc = "resolved" THEN main_check(r)
    ELSE IF r.i < Len(r.events) THEN main_loop(r, ok)
    ELSE main_done(r)

InitPair ==
    /\ \E o \in OffsetArgs : run = StartRun(TRUE, o) /\ twin = StartRun(FALSE, o)
    /\ sh = NoShift
    /\ call = NoCall

PairFetch ==
    /\ run.pc = "start" /\ twin.pc = "start"
    /\ \E outcome \in FetchOutcomes :
          \E evs \in (IF outcome = "ok" THEN EventLists ELSE { <<>> }) :
              /\ run' = main_fetch(run, outcome, evs)
              /\ twin' = main_fetch(twin, outcome, evs)
    /\ UNCHANGED <<sh, call>>

PairResolve ==
    /\ run.pc = "fetched" /\ twin.pc = "fetched"
    /\ \E resp \in OuraResponses :
          run' = main_resolve(run, resp) /\ twin' = main_resolve(twin, resp)
    /\ UNCHANGED <<sh, call>>

DryStep ==
    /\ run.pc \in {"resolved", "loop"}
    /\ \E ok \in BOOLEAN : run' = main_step(run, ok)
    /\ UNCHANGED <<twin, sh, call>>

LiveStep ==
    /\ twin.pc \in {"resolved", "loop"}
    /\ \E ok \in BOOLEAN : twin' = main_step(twin, ok)
    /\ UNCHANGED <<run, sh, call>>

NextPair == PairFetch \/ PairResolve \/ DryStep \/ LiveStep

SpecPair == InitPair /\ [][NextPair]_vars

\* ------------------------------------------------------------ shift_event alone
\* shift_event applied to one timed event: by a and then by b on the event
\* itself (sh.event, rewritten in place), and once by a + b on a copy of the
\* original (sh.single).
TextsAt(secs) ==
    { Ser(secs, 0, 0, "Z", 0), Ser(secs, 3, 500000, "Z", 0),
      Ser(secs, 0, 0, "num", 0), Ser(secs, 0, 0, "num", -300),
      Ser(secs, 3, 0, "num", 330), Ser(secs, 6, 123456, "num", -300),
      Ser(secs, 0, 0, "naive", 0) }

ShiftOffsets == { -90, 0, 45 }

InitShift ==
    /\ run = IdleRun
    /\ twin = IdleRun
    /\ call = NoCall
    /\ \E s \in TextsAt(T(1, 23, 0, 0)), e \in TextsAt(T(1, 23, 45, 0)),
          a \in ShiftOffsets, b \in ShiftOffsets :
          sh = [phase |-> "shift", a |-> a, b |-> b, steps |-> 0, summed |-> FALSE,
                orig |-> Event(TRUE, Gym, Timed(s), Timed(e), <<>>),
                event |-> Event(TRUE, Gym, Timed(s), Timed(e), <<>>),
                single |-> Event(TRUE, Gym, Timed(s), Timed(e), <<>>)]

ShiftFirst ==
    /\ sh.phase = "shift" /\ sh.steps = 0
    /\ sh' = [sh EXCEPT !.event = shift_event(sh.event, sh.a).event, !.steps = 1]
    /\ UNCHANGED <<run, twin, call>>

ShiftSecond ==
    /\ sh.phase = "shift" /\ sh.steps = 1
    /\ sh' = [sh EXCEPT !.event = shift_event(sh.event, sh.b).event, !.steps = 2]
    /\ UNCHANGED <<run, twin, call>>

ShiftOnce ==
    /\ sh.phase = "shift" /\ ~sh.summed
    /\ sh' = [sh EXCEPT !.single = shift_event(sh.orig, sh.a + sh.b).event,
                        !.summed = TRUE]
    /\ UNCHANGED <<run, twin, call>>

NextShift == ShiftFirst \/ ShiftSecond \/ ShiftOnce

SpecShift == InitShift /\ [][NextShift]_vars

\* ------------------------------------------------------------ get_oura_wake_time alone
\* One call of get_oura_wake_time() on an answer of the sleep provider.
MaxSessions == 2

\* bedtime_end values as the provider writes them: local wall clock with the
\* UTC offset of the place of the night, with or without a fraction of a
\* second (day 1 is today).
SessionPool ==
    { Ends(Ser(T(1,7,0,0), 0, 0, "num", -300)),
      Ends(Ser(T(1,7,0,0), 2, 120000, "Z", 0)),
      Ends(Ser(T(1,7,0,0), 3, 123000, "Z", 0)),
      Ends(Ser(T(1,8,0,0), 0, 0, "num", 60)),
      Ends(Ser(T(1,6,30,0), 0, 0, "num", -300)),
      Ends(Ser(T(0,23,30,0), 0, 0, "num", -300)),
      Ends(Ser(T(0,22,0,0), 0, 0, "num", -480)),
      Ends(Ser(T(1,7,0,0), 0, 0, "Z", 0)),
      NoEnd }

WakeResponses ==
    { RespTokenError, Resp(FALSE, FALSE, <<>>), Resp(TRUE, TRUE, <<>>) }
        \cup { Resp(TRUE, FALSE, ss) : ss \in SeqsUpTo(SessionPool, MaxSessions) }

InitWake ==
    /\ run = IdleRun
    /\ twin = IdleRun
    /\ sh = NoShift
    /\ \E resp \in WakeResponses :
          call = [phase |-> "wake", resp |-> resp, returned |-> FALSE, result |-> NoneDT]

CallWake ==
    /\ call.phase = "wake" /\ ~call.returned
    /\ call' = [call EXCEPT !.returned = TRUE, !.result = get_oura_wake_time(call.resp)]
    /\ UNCHANGED <<run, twin, sh>>

NextWake == CallWake

SpecWake == InitWake /\ [][NextWake]_vars

\* ------------------------------------------------------------ get_todays_events alone
\* datetime.now(): a naive datetime holding the machine's local wall clock
naive_now(secs, micro) ==
    [tag |-> "dt", secs |-> secs, micro |-> micro, aware |-> FALSE, off |-> 0]

\* now.replace(hour=0, minute=0, second=0, microsecond=0)
start_of_day_of(now) == [now EXCEPT !.secs = (now.secs \div 86400) * 86400, !.micro = 0]

\* s + 'Z' for the isoformat() of a naive datetime
append_Z(s) == [s EXCEPT !.zone = "Z", !.off = 0]

\* get_todays_events(service, calendar_id): the timeMin / timeMax strings
\* passed to events().list(...)
get_todays_events(now) ==
    LET start_of_day == start_of_day_of(now)
        end_of_day == [start_of_day EXCEPT !.secs = @ + 86400]
    IN [timeMin |-> append_Z(isoformat(start_of_day)),
        timeMax |-> append_Z(isoformat(end_of_day))]

\* The machine's clock: local wall-clock times, and the UTC offsets (minutes)
\* of the machine's timezone.
LocalNows ==
    { naive_now(T(d, h, m, 0), u) :
        d \in {1, 2}, h \in {0, 6, 19, 23}, m \in {0, 59}, u \in {0, 250000} }
UtcOffsets == { -480, -300, 0, 60, 330 }

InitWindow ==
    /\ run = IdleRun
    /\ twin = IdleRun
    /\ sh = NoShift
    /\ \E now \in LocalNows, utc_off \in UtcOffsets :
          call = [phase |-> "window", now |-> now, utc_off |-> utc_off,
                  returned |-> FALSE,
                  timeMin |-> Ser(0, 0, 0, "naive", 0),
                  timeMax |-> Ser(0, 0, 0, "naive", 0)]

CallWindow ==
    /\ call.phase = "window" /\ ~call.returned
    /\ LET w == get_todays_events(call.now)
       IN call' = [call EXCEPT !.returned = TRUE,
                               !.timeMin = w.timeMin, !.timeMax = w.timeMax]
    /\ UNCHANGED <<run, twin, sh>>

NextWindow == CallWindow

SpecWindow == InitWindow /\ [][NextWindow]_vars

\* ============================================================ properties
\* What the properties say about an event, stated on the event's fields.
\* The sleep lexicon of the glossary: sleep, wake, wakeup, wake up, bedtime.
Lexicon ==
    { <<115, 108, 101, 101, 112>>, <<119, 97, 107, 101>>,
      <<119, 97, 107, 101, 117, 112>>, <<119, 97, 107, 101, 32, 117, 112>>,
      <<98, 101, 100, 116, 105, 109, 101>> }
\* The characters that differ from a character of the lexicon in case only:
\* the letter itself, its capital and, for k, the Kelvin sign U+212A.
CaseVariants(d) ==
    IF d < 97 \/ d > 122 THEN { d }
    ELSE { d, d - 32 } \cup (IF d = 107 THEN { 8490 } ELSE {})
\* The title contains a word of the lexicon, letter case ignored.
HasMarkerTitle(event) ==
    /\ event.has_summary
    /\ \E name \in Lexicon :
          \E i \in 1..(Len(event.summary) - Len(name) + 1) :
              \A k \in 1..Len(name) : event.summary[i + k - 1] \in CaseVariants(name[k])
IsAllDay(event) == event.start.tag = "date"
Others(event) ==
    { k \in 1..Len(event.attendees) :
        event.attendees[k].email # MyEmail /\ ~event.attendees[k].self }
HasFailedUpdate(r) == \E k \in 1..Len(r.updates) : ~r.updates[k].ok
Count(classes, wanted) == Cardinality({ k \in 1..Len(classes) : classes[k] \in wanted })
Exempt == { "SLEEP_MARKER", "ALL_DAY", "HAS_ATTENDEES" }

\* C1: a --dry-run run with a positive offset issues no update call, and its
\* per-event classification and its shifted/skipped counts are those of the
\* live run over the same fetched events and the same offset.
C1_DryRunMatchesLiveRun ==
    (Terminated(run) /\ Terminated(twin) /\ run.offset_set /\ run.offset_minutes > 0)
        => /\ run.updates = <<>>
           /\ run.cls = twin.cls
           /\ run.shifted = twin.shifted
           /\ run.skipped = twin.skipped

\* C2: in a live run a failed update call does not abort the batch: the run
\* goes on with the next event and every fetched event is classified.
C2_RunContinuesAfterFailedUpdate ==
    (~run.dry_run /\ HasFailedUpdate(run))
        => /\ run.pc \in {"loop", "done"}
           /\ (Terminated(run) => Len(run.cls) = Len(run.events))

\* The cases in which automatic detection cannot resolve an offset.
C3_Undetectable(r) ==
    \/ r.resp.token_error
    \/ r.resp.token /\ r.resp.error
    \/ r.resp.token /\ ~r.resp.error /\ r.resp.sessions = <<>>
    \/ ~\E n \in 1..Len(r.events) :
          HasMarkerTitle(r.events[n]) /\ r.events[n].end.tag = "dateTime"

\* C3: with no manual offset, when the sleep provider returns no sessions or
\* the request errors, or no sleep-marker event with an end time exists, the
\* run ends with a nonzero exit status and issues no calendar update.
C3_UnresolvedOffsetExitsNonzero ==
    (~run.offset_arg.given /\ run.fetched /\ run.pc # "fetched" /\ C3_Undetectable(run))
        => /\ Terminated(run)
           /\ ExitStatus(run) = 1
           /\ run.pc = (IF run.resp.token_error THEN "crashed" ELSE "exit1")
           /\ run.updates = <<>>
           /\ run.cls = <<>>

C3_Witness ==
    /\ ~run.offset_arg.given
    /\ ~run.dry_run
    /\ run.pc = "exit1"
    /\ run.resp.token /\ ~run.resp.error /\ run.resp.sessions = <<>>
    /\ \E n \in 1..Len(run.events) : classify(run.events[n], MyEmail) = "SHIFTABLE"

\* a <= e on the wall-clock (timezone-stripped) values.
C4_NaiveNotLater(a, e) ==
    \/ a.secs < e.secs
    \/ a.secs = e.secs /\ a.micro <= e.micro

\* C4: whenever the resolved offset is <= 0 (in automatic mode: whenever the
\* actual wake is not later than the expected wake) the run ends with exit
\* status 0 without processing any event or issuing any update.
C4_NonPositiveOffsetNoAction ==
    /\ (run.offset_set /\ run.offset_minutes <= 0)
          => /\ run.pc \in {"resolved", "exit0"}
             /\ (Terminated(run) => ExitStatus(run) = 0)
             /\ run.i = 0 /\ run.cls = <<>> /\ run.updates = <<>>
             /\ run.shifted = 0
    /\ (run.actual_wake # NoneDT /\ run.expected_wake # NoneDT
           /\ C4_NaiveNotLater(run.actual_wake, run.expected_wake))
          => (run.offset_set /\ run.offset_minutes <= 0)

C4_Witness ==
    /\ run.pc = "exit0"
    /\ run.offset_minutes = 0
    /\ ~run.dry_run
    /\ run.actual_wake # NoneDT
    /\ \E n \in 1..Len(run.events) : classify(run.events[n], MyEmail) = "SHIFTABLE"

\* C5: whenever --offset is given, for every integer value including 0 and
\* negative ones, the sleep provider and the sleep-marker event are never
\* queried and the resolved offset is the value given.
C5_ManualOffsetBypassesDetection ==
    run.offset_arg.given
        => /\ run.oura_queries = 0
           /\ run.marker_lookups = 0
           /\ (run.fetched /\ run.pc # "fetched"
                  => run.offset_set /\ run.offset_minutes = run.offset_arg.value)

\* C6 (as claimed): every event with an attendee other than the user is
\* classified HAS_ATTENDEES, whatever its title or all-day status.
C6_OthersAlwaysHasAttendees ==
    \A n \in 1..Len(run.cls) :
        Others(run.events[n]) # {} => run.cls[n] = "HAS_ATTENDEES"

\* C6 (amended): every event with an attendee other than the user is exempt:
\* it is HAS_ATTENDEES when its title has no sleep marker and it is not
\* all-day, SLEEP_MARKER when its title has a marker, ALL_DAY otherwise; it
\* is never shifted or updated, whatever the offset.
C6_OthersExempt ==
    \A n \in 1..Len(run.cls) :
        Others(run.events[n]) # {}
            => /\ run.cls[n] = (IF HasMarkerTitle(run.events[n]) THEN "SLEEP_MARKER"
                                ELSE IF IsAllDay(run.events[n]) THEN "ALL_DAY"
                                ELSE "HAS_ATTENDEES")
               /\ \A k \in 1..Len(run.updates) : run.updates[k].id # n

C6_Witness ==
    /\ run.pc = "done"
    /\ ~run.dry_run
    /\ \E n \in 1..Len(run.cls) :
          /\ Cardinality(Others(run.events[n])) = 1
          /\ Len(run.events[n].attendees) = 2
          /\ run.cls[n] = "HAS_ATTENDEES"
    /\ \E n \in 1..Len(run.cls) : run.cls[n] = "SHIFTABLE"

\* The solo-check as the specification words it.
C7_SoloCheck(event) ==
    \/ event.attendees = <<>>
    \/ \A k \in 1..Len(event.attendees) :
          event.attendees[k].email = MyEmail \/ event.attendees[k].self

\* C7: each event the loop reaches gets exactly one of the four classes, and
\* it is SHIFTABLE (counted as shifted, and updated in a live run) exactly
\* when its title has no sleep marker, its start is not date-only and it has
\* no attendees or only attendees that are the user (own email or self flag).
C7_ClassificationRule ==
    /\ \A n \in 1..Len(run.cls) :
          /\ run.cls[n] \in Exempt \cup {"SHIFTABLE"}
          /\ run.cls[n] = "SHIFTABLE"
                <=> (/\ ~HasMarkerTitle(run.events[n])
                     /\ ~IsAllDay(run.events[n])
                     /\ C7_SoloCheck(run.events[n]))
          /\ (\E k \in 1..Len(run.updates) : run.updates[k].id = n)
                <=> (~run.dry_run /\ run.cls[n] = "SHIFTABLE")
    /\ run.pc = "done"
          => /\ Len(run.cls) = Len(run.events)
             /\ run.shifted = Count(run.cls, {"SHIFTABLE"})
             /\ run.skipped = Count(run.cls, Exempt)

C7_Witness ==
    /\ run.pc = "done"
    /\ ~run.dry_run
    /\ Len(run.events) = MaxEvents
    /\ run.shifted = 1
    /\ run.skipped = Len(run.events) - 1
    /\ \E n \in 1..Len(run.cls) :
          run.cls[n] = "SHIFTABLE" /\ run.events[n].attendees = <<MeAlias>>
    /\ \E n \in 1..Len(run.cls) :
          run.cls[n] = "SLEEP_MARKER" /\ run.events[n].summary = KelvinWAKE

\* C8: shifting a timed event by offset 0 leaves the serialized start and end
\* strings byte-identical, whatever representation each had.
C8_ZeroShiftIsIdentity ==
    (sh.phase = "shift" /\ sh.steps = 1 /\ sh.a = 0)
        => /\ sh.event.start.dateTime = sh.orig.start.dateTime
           /\ sh.event.end.dateTime = sh.orig.end.dateTime

\* C9: shifting an event by a and then by b gives the same serialized start
\* and end as shifting the original event once by a + b.
C9_ShiftIsAdditive ==
    (sh.phase = "shift" /\ sh.steps = 2 /\ sh.summed)
        => /\ sh.event.start.dateTime = sh.single.start.dateTime
           /\ sh.event.end.dateTime = sh.single.end.dateTime

C9_Witness ==
    /\ sh.phase = "shift" /\ sh.steps = 2 /\ sh.summed
    /\ sh.a = -90 /\ sh.b = 45
    /\ sh.orig.start.dateTime.zone = "Z" /\ sh.orig.start.dateTime.fd > 0
    /\ sh.orig.end.dateTime.zone = "num"
    /\ sh.event.start.dateTime # sh.orig.start.dateTime

\* ds seconds + dm microseconds >= 0, for |dm| < 10^6.
C10_AtLeast(ds, dm) == ds >= 1 \/ (ds = 0 /\ dm >= 0)

\* C10: in automatic mode the offset is (actual_wake - expected_wake) in
\* minutes truncated toward zero, both taken without their timezone:
\* offset * 60 s lies between 0 and the difference, less than a minute from it.
C10_OffsetTruncatesTowardZero ==
    (run.offset_set /\ run.actual_wake # NoneDT /\ run.expected_wake # NoneDT)
        => LET ds == run.actual_wake.secs - run.expected_wake.secs
               dm == run.actual_wake.micro - run.expected_wake.micro
               o == run.offset_minutes
           IN IF C10_AtLeast(ds, dm)
              THEN /\ o >= 0
                   /\ C10_AtLeast(ds - 60 * o, dm)
                   /\ ~C10_AtLeast(ds - 60 * (o + 1), dm)
              ELSE /\ o <= 0
                   /\ C10_AtLeast(60 * o - ds, -dm)
                   /\ ~C10_AtLeast(60 * (o - 1) - ds, -dm)

C10_Witness ==
    /\ run.offset_set
    /\ run.expected_wake # NoneDT /\ run.expected_wake.secs = T(1, 7, 0, 0)
    /\ run.actual_wake # NoneDT /\ run.actual_wake.secs = T(1, 8, 15, 0)
    /\ run.offset_minutes = 75

\* The instant a serialized timestamp denotes, in seconds of UTC.
UtcSeconds(text) == text.secs - 60 * (IF text.zone = "num" THEN text.off ELSE 0)

\* The sessions get_oura_wake_time must choose among: those with an end on
\* today's date, or all those with an end when none ends today.
C11_Candidates(r) ==
    LET with_end == { i \in 1..Len(r.sessions) : r.sessions[i].present }
        today == { i \in with_end :
                     /\ r.sessions[i].bedtime_end.secs >= 86400 * r.today
                     /\ r.sessions[i].bedtime_end.secs < 86400 * (r.today + 1) }
    IN IF today # {} THEN today ELSE with_end

\* C11: for a non-empty list of sessions the wake-time source returns the end
\* of the session with the temporally latest end among those ending today,
\* or among all sessions when none ends today; it returns unavailable when
\* the list is empty or the request errors.
C11_ReturnsTemporallyLatestEnd ==
    (call.phase = "wake" /\ call.returned)
        => LET r == call.resp
               cands == C11_Candidates(r)
           IN /\ (r.token_error \/ r.error \/ r.sessions = <<>>) => call.result = NoneDT
              /\ (r.token /\ ~r.error /\ cands # {})
                    => \E i \in cands :
                          /\ call.result = fromisoformat(r.sessions[i].bedtime_end)
                          /\ \A j \in cands :
                                UtcSeconds(r.sessions[j].bedtime_end)
                                    <= UtcSeconds(r.sessions[i].bedtime_end)

\* C12: an update call is issued only for events classified SHIFTABLE and at
\* most once per event; an event classified SLEEP_MARKER, ALL_DAY or
\* HAS_ATTENDEES keeps its start and end and is never passed to update.
C12_UpdatesOnlyShiftableOnce ==
    /\ [](\A k \in 1..Len(run.updates) :
             LET n == run.updates[k].id
             IN /\ n \in 1..Len(run.cls)
                /\ run.cls[n] = "SHIFTABLE"
                /\ ~run.dry_run
                /\ \A k2 \in 1..Len(run.updates) : run.updates[k2].id = n => k2 = k)
    /\ [][\A n \in 1..Len(run'.cls) :
             run'.cls[n] \in Exempt
                => /\ run'.events[n].start = run.events[n].start
                   /\ run'.events[n].end = run.events[n].end]_vars

C12_Witness ==
    /\ run.pc = "done"
    /\ ~run.dry_run
    /\ Len(run.events) = MaxEvents
    /\ Len(run.updates) = 1
    /\ run.cls[1] = "HAS_ATTENDEES"
    /\ run.cls[Len(run.cls)] = "SHIFTABLE"
    /\ run.updates[1].id = Len(run.cls)

\* C13: the fetch window runs from local midnight at the start of today to
\* local midnight at the start of tomorrow: for every UTC offset of the
\* machine, timeMin and timeMax denote the local day boundaries.
C13_WindowIsLocalDay ==
    (call.phase = "window" /\ call.returned)
        => LET local_midnight == (call.now.secs \div 86400) * 86400
           IN /\ UtcSeconds(call.timeMin) = local_midnight - 60 * call.utc_off
              /\ UtcSeconds(call.timeMax) = local_midnight + 86400 - 60 * call.utc_off

====
